---- MODULE Spec2Model ----
(***************************************************************************)
(* Model of the deploy command (internal/cli/internal/command/deploy):     *)
(* run, determineAppConfig, determineImage, fetchImageRef, createRelease,  *)
(* NixSourceBuild and waitForLocalPort, together with the background       *)
(* rsync proxy goroutine started by NixSourceBuild.                        *)
(***************************************************************************)
EXTENDS Integers, Sequences, FiniteSets, TLC

VARIABLES
    flags,          \* command-line selectors read through flag.Get*
    appName,        \* app.NameFromContext(ctx)
    localCfg,       \* app.ConfigFromContext(ctx): Nil or the local config
    portBusy,       \* another process holds local port 8873 when the proxy starts
    pc,             \* position of the foreground flow
    appConfig,      \* result of determineAppConfig
    img,            \* image returned by determineImage
    err,            \* error returned by determineImage
    nixImg,         \* image returned by NixSourceBuild
    nixErr,         \* error returned by NixSourceBuild
    nixReturned,    \* NixSourceBuild has returned
    deferRegistered,\* defer cancelProxy() has been executed
    cancelCalls,    \* number of invocations of cancelProxy
    proxyCtxDone,   \* cancelProxy has cancelled proxyCtx
    ctxDone,        \* the orchestration context has been cancelled
    proxyState,     \* state of the goroutine running proxy.Connect
    attempts,       \* connect attempts made by the readiness poll
    sleeps,         \* waits made by the readiness poll
    dialOk,         \* connect attempts that succeeded
    lastDialErr,    \* error of the last failed connect attempt
    syncResult,     \* result of the rsync process: "none", "ok", "failed"
    sshResult,      \* result of the remote build command
    imageRef,       \* result of fetchImageRef
    opts,           \* options handed to the resolver
    deployInput,    \* api.DeployImageInput handed to DeployImage
    release,        \* *api.Release held by run
    releaseCommand, \* *api.ReleaseCommand held by run
    submitted,      \* the release returned by DeployImage
    watchedEval,    \* evaluation id handed to watch.Deployment
    refetched,        \* the release returned by GetAppRelease
    dispatched,     \* run has reached the strategy check of line 149
    rcResult,       \* result of watch.ReleaseCommand: "none", "ok", "failed"
    watchResult,    \* result of watch.Deployment: "none", "ok", "failed"
    calls,          \* invocations of each collaborator
    runResult,      \* result of run: "running", "ok", "error", "panic"
    runErr          \* error returned by run

vars == <<flags, appName, localCfg, portBusy, pc, appConfig, img, err, nixImg,
          nixErr, nixReturned, deferRegistered, cancelCalls, proxyCtxDone,
          ctxDone, proxyState, attempts, sleeps, dialOk, lastDialErr,
          syncResult, sshResult, imageRef, opts, deployInput, release,
          releaseCommand, submitted, watchedEval, refetched, dispatched,
          rcResult, watchResult, calls, runResult, runErr>>

inputVars == <<flags, appName, localCfg>>
proxyVars == <<proxyState, portBusy>>
cancelVars == <<deferRegistered, cancelCalls, proxyCtxDone>>
pollVars == <<attempts, sleeps, dialOk, lastDialErr>>
nixVars == <<nixImg, nixErr, nixReturned, syncResult, sshResult>>
imageVars == <<img, err, imageRef, opts>>
releaseVars == <<deployInput, release, releaseCommand, submitted, watchedEval,
                 refetched, dispatched, rcResult, watchResult>>

----------------------------------------------------------------------------
(* Bounds *)

NumApps == 1        \* application names 1..NumApps
NumRefs == 1        \* image references 1..NumRefs (0 is the empty string)
NumEvals == 2       \* evaluation ids 1..NumEvals
MaxArgs == 2        \* --build-arg occurrences on the command line

----------------------------------------------------------------------------
(* Values *)

Nil == [nil |-> TRUE]
NoErr == <<>>

\* variant: one attempt too many
RetryAttempts_Eleven == 10 + 1

\* the attempt count handed to retry.Retry, line 410
RetryAttempts == 10
SentinelSize == 10

Collaborators ==
    {"GetConfig", "RemoteBuilderMachine", "Establish", "ConnectToTunnel",
     "proxy.Connect", "rsync", "RunSSHCommand", "fetchImageRef",
     "ResolveReference", "BuildImage", "DeployImage", "watch.ReleaseCommand",
     "GetAppRelease", "watch.Deployment", "determineImage", "NixSourceBuild"}

Call(c) == [calls EXCEPT ![c] = @ + 1]

Strategies == {"IMMEDIATE", "CANARY"}

Releases ==
    [ID : {1}, EvaluationID : 1..NumEvals, DeploymentStrategy : Strategies]

\* imgsrc.NewDeploymentTag(appName, label): identity derived from the pair
NewDeploymentTag(app, label) == <<"registry", app, label>>

\* images a resolver collaborator may hand back
ResolverImages ==
    {[Tag |-> <<"resolved", r, "">>, ID |-> <<"sha", r, "">>, Size |-> 1] :
        r \in 0..NumRefs}

Wrap(msg, e) == <<msg>> \o e

----------------------------------------------------------------------------
(* File paths: the empty string, or a rooted or relative list of elements *)

EmptyPath == [empty |-> TRUE]

Path(abs, parts) == [abs |-> abs, parts |-> parts]

RECURSIVE CleanParts(_, _, _)
\* filepath.Clean on the elements: drop ".", resolve ".."
CleanParts(parts, abs, acc) ==
    IF parts = <<>> THEN acc
    ELSE LET e == Head(parts)
             rest == Tail(parts)
         IN  IF e = "." THEN CleanParts(rest, abs, acc)
             ELSE IF e = ".."
               THEN IF acc # <<>> /\ acc[Len(acc)] # ".."
                      THEN CleanParts(rest, abs, SubSeq(acc, 1, Len(acc) - 1))
                    ELSE IF abs THEN CleanParts(rest, abs, acc)
                    ELSE CleanParts(rest, abs, Append(acc, e))
             ELSE CleanParts(rest, abs, Append(acc, e))

\* filepath.Clean; the empty string cleans to "."
Clean(p) ==
    IF p = EmptyPath THEN Path(FALSE, <<>>)
    ELSE Path(p.abs, CleanParts(p.parts, p.abs, <<>>))

\* filepath.Dir, line 297
Dir(p) ==
    IF p = EmptyPath \/ p.parts = <<>> THEN Clean(p)
    ELSE Clean(Path(p.abs, SubSeq(p.parts, 1, Len(p.parts) - 1)))

\* filepath.Join of two elements, line 297: empty elements are ignored
Join(a, b) ==
    IF a = EmptyPath THEN (IF b = EmptyPath THEN EmptyPath ELSE Clean(b))
    ELSE IF b = EmptyPath THEN Clean(a)
    ELSE Clean(Path(a.abs, a.parts \o b.parts))

\* the working directory of the process
Cwd == Path(TRUE, <<"cwd">>)

\* filepath.Abs, line 292: a relative path needs os.Getwd, which may fail
Abs(p, getwdOk) ==
    IF p # EmptyPath /\ p.abs THEN [path |-> Clean(p), err |-> NoErr]
    ELSE IF ~getwdOk THEN [path |-> EmptyPath, err |-> <<"filepath.Abs">>]
    ELSE [path |-> Join(Cwd, p), err |-> NoErr]

----------------------------------------------------------------------------
(* String maps and NAME=VALUE arguments; a string is a sequence of characters *)

NilMap == [nil |-> TRUE]

Map(m) == [nil |-> FALSE, m |-> m]

EmptyMap == [k \in {} |-> <<>>]

\* args[k] = v
Put(m, k, v) == [x \in DOMAIN m \cup {k} |-> IF x = k THEN v ELSE m[x]]

\* strings.SplitN(arg, "=", 2): the position of the first "=", or 0
FirstEq(arg) ==
    IF \E i \in 1..Len(arg) : arg[i] = "="
      THEN CHOOSE i \in 1..Len(arg) :
              arg[i] = "=" /\ \A j \in 1..(i - 1) : arg[j] # "="
      ELSE 0

RECURSIVE ParseKV(_, _)
\* cmdutil.ParseKVStringsToMap: later pairs replace earlier ones, a string
\* without "=" is an error
ParseKV(args, out) ==
    IF args = <<>> THEN [ok |-> TRUE, m |-> out]
    ELSE LET arg == Head(args)
             i == FirstEq(arg)
         IN  IF i = 0 THEN [ok |-> FALSE, m |-> EmptyMap]
             ELSE ParseKV(Tail(args),
                          Put(out, SubSeq(arg, 1, i - 1),
                              SubSeq(arg, i + 1, Len(arg))))

ParseKVStringsToMap(args) == ParseKV(args, EmptyMap)

----------------------------------------------------------------------------
(* Initial state: the command has been invoked, nothing has run yet *)

ProjToml == Path(TRUE, <<"proj", "fly.toml">>)

\* selectors of runs that leave the Docker build inputs at their defaults
Flags ==
    [nix : BOOLEAN, buildOnly : BOOLEAN, detach : BOOLEAN,
     image : 0..NumRefs, dockerfile : {EmptyPath}, buildTarget : {""},
     buildArg : {<<>>}]

Builds ==
    [Image : 0..NumRefs, DockerBuildTarget : {""}, Dockerfile : {EmptyPath},
     Args : {NilMap}]

Configs == [Build : {Nil} \cup Builds, Path : {ProjToml}]

\* NAME=VALUE strings given to --build-arg; the last one is malformed
ArgStrings == {<<"B", "=", "3">>, <<"C", "=", "4">>, <<"B">>}

RECURSIVE SeqsUpTo(_, _)
SeqsUpTo(S, n) ==
    IF n = 0 THEN {<<>>}
    ELSE LET shorter == SeqsUpTo(S, n - 1)
         IN  shorter \cup {Append(q, x) : q \in shorter, x \in S}

\* selectors of build-only runs that build from source with Docker
BuildFlags ==
    [nix : {FALSE}, buildOnly : {TRUE}, detach : {FALSE}, image : {0},
     dockerfile : {EmptyPath, Path(FALSE, <<"Dockerfile.cli">>),
                   Path(TRUE, <<"abs", "Dockerfile">>)},
     buildTarget : {"", "flagTarget"},
     buildArg : SeqsUpTo(ArgStrings, MaxArgs)]

CfgArgs ==
    {NilMap, Map(EmptyMap),
     Map((<<"A">> :> <<"1">>) @@ (<<"B">> :> <<"2">>))}

BuildConfigs ==
    [Build : {Nil} \cup
        [Image : {0}, DockerBuildTarget : {"", "cfgTarget"},
         Dockerfile : {EmptyPath, Path(FALSE, <<"docker", "Dockerfile">>),
                       Path(FALSE, <<"..", "Dockerfile">>)},
         Args : CfgArgs],
     Path : {ProjToml, Path(FALSE, <<"fly.toml">>)}]

InitWith(F, C) ==
    /\ flags \in F
    /\ appName \in 1..NumApps
    /\ localCfg \in {Nil} \cup C
    /\ portBusy = FALSE
    /\ pc = "determineAppConfig"
    /\ appConfig = Nil
    /\ img = Nil
    /\ err = NoErr
    /\ nixImg = Nil
    /\ nixErr = NoErr
    /\ nixReturned = FALSE
    /\ deferRegistered = FALSE
    /\ cancelCalls = 0
    /\ proxyCtxDone = FALSE
    /\ ctxDone = FALSE
    /\ proxyState = "none"
    /\ attempts = 0
    /\ sleeps = 0
    /\ dialOk = 0
    /\ lastDialErr = NoErr
    /\ syncResult = "none"
    /\ sshResult = "none"
    /\ imageRef = 0
    /\ opts = Nil
    /\ deployInput = Nil
    /\ release = Nil
    /\ releaseCommand = Nil
    /\ submitted = Nil
    /\ watchedEval = 0
    /\ refetched = Nil
    /\ dispatched = FALSE
    /\ rcResult = "none"
    /\ watchResult = "none"
    /\ calls = [c \in Collaborators |-> 0]
    /\ runResult = "running"
    /\ runErr = NoErr

Init == InitWith(Flags, Configs)

\* build-only runs from source, over the Docker build inputs
InitBuild == InitWith(BuildFlags, BuildConfigs)

----------------------------------------------------------------------------
(* run and determineAppConfig *)

RunReturn(result, e) ==
    /\ pc' = "done"
    /\ runResult' = result
    /\ runErr' = e

\* run, lines 103-106, with determineAppConfig
DetermineAppConfig ==
    /\ pc = "determineAppConfig"
    /\ \E fetchOk \in BOOLEAN, env \in {"none", "ok", "bad"} :
          LET fetched == [Build |-> Nil, Path |-> EmptyPath]
              cfg == IF localCfg = Nil THEN fetched ELSE localCfg
          IN  /\ (localCfg # Nil) => fetchOk
              /\ calls' = IF localCfg = Nil THEN Call("GetConfig") ELSE calls
              /\ IF ~fetchOk
                    THEN /\ RunReturn("error",
                               Wrap("failed fetching existing app config",
                                    <<"GetConfig">>))
                         /\ UNCHANGED appConfig
                    ELSE IF env = "bad"
                    THEN /\ RunReturn("error",
                               Wrap("failed parsing environment",
                                    <<"ParseKVStringsToMap">>))
                         /\ UNCHANGED appConfig
                    ELSE /\ appConfig' = cfg
                         /\ pc' = "determineImage"
                         /\ UNCHANGED <<runResult, runErr>>
    /\ UNCHANGED <<inputVars, proxyVars, cancelVars, pollVars, nixVars,
                   imageVars, releaseVars, ctxDone>>

----------------------------------------------------------------------------
(* determineImage, nix branch, and NixSourceBuild *)

\* determineImage, lines 200-207: the nix selector bypasses the resolver
DetermineImageNix ==
    /\ pc = "determineImage"
    /\ flags.nix
    /\ pc' = "nix_builder"
    /\ calls' = [calls EXCEPT !["determineImage"] = @ + 1,
                              !["NixSourceBuild"] = @ + 1]
    /\ UNCHANGED <<inputVars, appConfig, proxyVars, cancelVars, pollVars,
                   nixVars, imageVars, releaseVars, ctxDone, runResult,
                   runErr>>

\* variant: the handle invoked belongs to another context
CancelProxy_OtherContext ==
    /\ cancelCalls' = cancelCalls + 1
    /\ UNCHANGED proxyCtxDone

\* the cancel function returned by context.WithCancel, line 397
CancelProxy ==
    /\ cancelCalls' = cancelCalls + 1
    /\ proxyCtxDone' = TRUE

\* variant: the deferred call is missing
RunDeferred_Never == UNCHANGED <<cancelCalls, proxyCtxDone>>

\* defer cancelProxy(), line 398: runs when NixSourceBuild returns
RunDeferred ==
    IF deferRegistered
      THEN CancelProxy
      ELSE UNCHANGED <<cancelCalls, proxyCtxDone>>

\* a return statement of NixSourceBuild
NixReturn(i, e) ==
    /\ nixImg' = i
    /\ nixErr' = e
    /\ nixReturned' = TRUE
    /\ RunDeferred
    /\ UNCHANGED deferRegistered
    /\ pc' = "nix_returned"

\* NixSourceBuild, lines 370-374
NixRemoteBuilderMachine ==
    /\ pc = "nix_builder"
    /\ calls' = Call("RemoteBuilderMachine")
    /\ \E ok \in BOOLEAN :
          IF ok THEN /\ pc' = "nix_establish"
                     /\ UNCHANGED <<nixImg, nixErr, nixReturned, cancelVars>>
                ELSE NixReturn(Nil, <<"RemoteBuilderMachine">>)
    /\ UNCHANGED <<inputVars, appConfig, proxyVars, pollVars, syncResult,
                   sshResult, imageVars, releaseVars, ctxDone, runResult,
                   runErr>>

\* NixSourceBuild, lines 376-380
NixEstablish ==
    /\ pc = "nix_establish"
    /\ calls' = Call("Establish")
    /\ \E ok \in BOOLEAN :
          IF ok THEN /\ pc' = "nix_tunnel"
                     /\ UNCHANGED <<nixImg, nixErr, nixReturned, cancelVars>>
                ELSE NixReturn(Nil, <<"Establish">>)
    /\ UNCHANGED <<inputVars, appConfig, proxyVars, pollVars, syncResult,
                   sshResult, imageVars, releaseVars, ctxDone, runResult,
                   runErr>>

\* NixSourceBuild, lines 382-386
NixConnectToTunnel ==
    /\ pc = "nix_tunnel"
    /\ calls' = Call("ConnectToTunnel")
    /\ \E ok \in BOOLEAN :
          IF ok THEN /\ pc' = "nix_proxy"
                     /\ UNCHANGED <<nixImg, nixErr, nixReturned, cancelVars>>
                ELSE NixReturn(Nil, <<"ConnectToTunnel">>)
    /\ UNCHANGED <<inputVars, appConfig, proxyVars, pollVars, syncResult,
                   sshResult, imageVars, releaseVars, ctxDone, runResult,
                   runErr>>

\* NixSourceBuild, lines 388-402: create the cancellable context, register
\* the deferred cancel and start the proxy goroutine
NixStartProxy ==
    /\ pc = "nix_proxy"
    /\ deferRegistered' = TRUE
    /\ proxyState' = "spawned"
    /\ portBusy' \in BOOLEAN
    /\ calls' = Call("proxy.Connect")
    /\ pc' = "nix_sleep"
    /\ UNCHANGED <<inputVars, appConfig, cancelCalls, proxyCtxDone, pollVars,
                   nixVars, imageVars, releaseVars, ctxDone, runResult,
                   runErr>>

\* local port 8873 accepts connections
PortBound == portBusy \/ proxyState = "listening"

\* retry.Retry(fn, n): what the loop does after an attempt
RetryDecision(made, ok, max) ==
    IF ok THEN "success"
    ELSE IF made >= max THEN "exhausted"
    ELSE "again"

\* the error retry.Retry returns when every attempt failed
RetryError(last) == Wrap("retries exhausted", last)

\* variant: the cause is dropped instead of wrapped
TunnelNotReady_Unwrapped(cause) ==
    <<"rsync proxy failed to connect after 10 seconds">>

\* line 411: the error returned when the poll gives up, wrapping its cause
TunnelNotReady(cause) ==
    Wrap("rsync proxy failed to connect after 10 seconds", cause)

\* fn, line 406: the wait before each connect attempt
NixPollSleep ==
    /\ pc = "nix_sleep"
    /\ sleeps' = sleeps + 1
    /\ pc' = "nix_dial"
    /\ UNCHANGED <<inputVars, appConfig, proxyVars, cancelVars, attempts,
                   dialOk, lastDialErr, nixVars, imageVars, releaseVars,
                   ctxDone, calls, runResult, runErr>>

\* variant: the poll also reports the proxy task's own failure
NixPollDial_JoinsProxy ==
    /\ pc = "nix_dial"
    /\ \E ok \in BOOLEAN :
          LET dialErr == <<"dial tcp localhost:8873">>
              decision == RetryDecision(attempts + 1, ok, RetryAttempts)
          IN  /\ ok => PortBound
              /\ attempts' = attempts + 1
              /\ dialOk' = IF ok THEN dialOk + 1 ELSE dialOk
              /\ lastDialErr' = IF ok THEN lastDialErr ELSE dialErr
              /\ IF proxyState = "failed"
                   THEN NixReturn(Nil, <<"proxy.Connect">>)
                   ELSE IF decision = "success"
                   THEN /\ pc' = "nix_sync"
                        /\ UNCHANGED <<nixImg, nixErr, nixReturned,
                                       cancelVars>>
                   ELSE IF decision = "again"
                   THEN /\ pc' = "nix_sleep"
                        /\ UNCHANGED <<nixImg, nixErr, nixReturned,
                                       cancelVars>>
                   ELSE NixReturn(Nil, TunnelNotReady(RetryError(dialErr)))
    /\ UNCHANGED <<inputVars, appConfig, proxyVars, sleeps, syncResult,
                   sshResult, imageVars, releaseVars, ctxDone, calls,
                   runResult, runErr>>

\* fn, line 407, waitForLocalPort, and lines 410-412
NixPollDial ==
    /\ pc = "nix_dial"
    /\ \E ok \in BOOLEAN :
          LET dialErr == <<"dial tcp localhost:8873">>
              decision == RetryDecision(attempts + 1, ok, RetryAttempts)
          IN  /\ ok => PortBound
              /\ attempts' = attempts + 1
              /\ dialOk' = IF ok THEN dialOk + 1 ELSE dialOk
              /\ lastDialErr' = IF ok THEN lastDialErr ELSE dialErr
              /\ IF decision = "success"
                   THEN /\ pc' = "nix_sync"
                        /\ UNCHANGED <<nixImg, nixErr, nixReturned,
                                       cancelVars>>
                   ELSE IF decision = "again"
                   THEN /\ pc' = "nix_sleep"
                        /\ UNCHANGED <<nixImg, nixErr, nixReturned,
                                       cancelVars>>
                   ELSE NixReturn(Nil, TunnelNotReady(RetryError(dialErr)))
    /\ UNCHANGED <<inputVars, appConfig, proxyVars, sleeps, syncResult,
                   sshResult, imageVars, releaseVars, ctxDone, calls,
                   runResult, runErr>>

\* NixSourceBuild, lines 414-420: start the rsync process; cmd.Run blocks
\* until the process exits
NixSyncStart ==
    /\ pc = "nix_sync"
    /\ calls' = Call("rsync")
    /\ pc' = "nix_syncing"
    /\ UNCHANGED <<inputVars, appConfig, proxyVars, cancelVars, pollVars,
                   nixVars, imageVars, releaseVars, ctxDone, runResult,
                   runErr>>

\* variant: a failed sync aborts the build
NixSync_Abort ==
    /\ pc = "nix_syncing"
    /\ UNCHANGED calls
    /\ \E ok \in BOOLEAN :
          /\ syncResult' = IF ok THEN "ok" ELSE "failed"
          /\ IF ok THEN /\ pc' = "nix_ssh"
                        /\ UNCHANGED <<nixImg, nixErr, nixReturned, cancelVars>>
                   ELSE NixReturn(Nil, Wrap("code rsync failed", <<"rsync">>))
    /\ UNCHANGED <<inputVars, appConfig, proxyVars, pollVars, sshResult,
                   imageVars, releaseVars, ctxDone, runResult, runErr>>

\* NixSourceBuild, lines 420-424: rsync exits; a failure is only printed
NixSync ==
    /\ pc = "nix_syncing"
    /\ UNCHANGED calls
    /\ \E ok \in BOOLEAN : syncResult' = IF ok THEN "ok" ELSE "failed"
    /\ pc' = "nix_ssh"
    /\ UNCHANGED <<inputVars, appConfig, proxyVars, cancelVars, pollVars,
                   nixImg, nixErr, nixReturned, sshResult, imageVars,
                   releaseVars, ctxDone, runResult, runErr>>

\* variant: the id is not the tag
NewImage_OtherID(tag) ==
    [Tag |-> tag, ID |-> <<"sha", 0, "">>, Size |-> SentinelSize]

\* NixSourceBuild, lines 438-442: the image synthesized after the build
NewImage(tag) == [Tag |-> tag, ID |-> tag, Size |-> SentinelSize]

\* NixSourceBuild, lines 426-430: hand the build command to the remote
\* command channel
NixRunSSHStart ==
    /\ pc = "nix_ssh"
    /\ calls' = Call("RunSSHCommand")
    /\ pc' = "nix_sshing"
    /\ UNCHANGED <<inputVars, appConfig, proxyVars, cancelVars, pollVars,
                   nixVars, imageVars, releaseVars, ctxDone, runResult,
                   runErr>>

\* NixSourceBuild, lines 430-445: the remote build command has completed
NixRunSSHCommand ==
    /\ pc = "nix_sshing"
    /\ UNCHANGED calls
    /\ \E ok \in BOOLEAN :
          LET imageTag == NewDeploymentTag(appName, "")
              di == NewImage(imageTag)
          IN  /\ sshResult' = IF ok THEN "ok" ELSE "failed"
              /\ IF ok THEN NixReturn(di, NoErr)
                       ELSE NixReturn(Nil, <<"RunSSHCommand">>)
    /\ UNCHANGED <<inputVars, appConfig, proxyVars, pollVars, syncResult,
                   imageVars, releaseVars, ctxDone, runResult, runErr>>

\* determineImage, lines 207-211: hand back NixSourceBuild's result
DetermineImageNixReturn ==
    /\ pc = "nix_returned"
    /\ IF nixErr # NoErr
         THEN img' = Nil /\ err' = nixErr
         ELSE img' = nixImg /\ err' = NoErr
    /\ pc' = "run_checkImage"
    /\ UNCHANGED <<inputVars, appConfig, proxyVars, cancelVars, pollVars,
                   nixVars, imageRef, opts, releaseVars, ctxDone, calls,
                   runResult, runErr>>

----------------------------------------------------------------------------
(* The goroutine running proxy.Connect(proxyCtx, params), lines 400-402 *)

ProxyRunning == proxyState \in {"spawned", "listening"}

\* the proxy binds local port 8873 and starts forwarding
ProxyBind ==
    /\ proxyState = "spawned"
    /\ ~portBusy
    /\ proxyState' = "listening"
    /\ UNCHANGED <<inputVars, portBusy, pc, appConfig, cancelVars, pollVars,
                   nixVars, imageVars, releaseVars, ctxDone, calls, runResult,
                   runErr>>

\* the proxy fails to bind, or fails while forwarding; its error is dropped
ProxyFail ==
    /\ ProxyRunning
    /\ proxyState' = "failed"
    /\ UNCHANGED <<inputVars, portBusy, pc, appConfig, cancelVars, pollVars,
                   nixVars, imageVars, releaseVars, ctxDone, calls, runResult,
                   runErr>>

\* variant: proxyCtx is not derived from the orchestration context
ProxyCtxDone_Detached == proxyCtxDone

\* proxyCtx is done once cancelProxy ran or the parent context is done
ProxyCtxDone == proxyCtxDone \/ ctxDone

\* the proxy observes the cancelled context, closes the listener and ends
ProxyStop ==
    /\ ProxyRunning
    /\ ProxyCtxDone
    /\ proxyState' = "stopped"
    /\ UNCHANGED <<inputVars, portBusy, pc, appConfig, cancelVars, pollVars,
                   nixVars, imageVars, releaseVars, ctxDone, calls, runResult,
                   runErr>>

\* the orchestration context is cancelled (process interruption)
CancelCtx ==
    /\ ~ctxDone
    /\ pc # "done"
    /\ ctxDone' = TRUE
    /\ UNCHANGED <<inputVars, pc, appConfig, proxyVars, cancelVars, pollVars,
                   nixVars, imageVars, releaseVars, calls, runResult, runErr>>

----------------------------------------------------------------------------
(* determineImage, image reference and Docker build branches *)

\* fetchImageRef, lines 323-335; 0 stands for the empty reference
FetchImageRef(flagImage, cfg) ==
    IF flagImage # 0 THEN flagImage
    ELSE IF cfg # Nil /\ cfg.Build # Nil THEN cfg.Build.Image
    ELSE 0

\* variant: the nix selector is not consulted first
DetermineImageFetchRef_IgnoreNix ==
    /\ pc = "determineImage"
    /\ calls' = [calls EXCEPT !["determineImage"] = @ + 1,
                              !["fetchImageRef"] = @ + 1]
    /\ imageRef' = FetchImageRef(flags.image, appConfig)
    /\ pc' = IF imageRef' # 0 THEN "resolveReference" ELSE "buildImage"
    /\ UNCHANGED <<inputVars, appConfig, proxyVars, cancelVars, pollVars,
                   nixVars, img, err, opts, releaseVars, ctxDone, runResult,
                   runErr>>

\* determineImage, lines 213-223
DetermineImageFetchRef ==
    /\ pc = "determineImage"
    /\ ~flags.nix
    /\ calls' = [calls EXCEPT !["determineImage"] = @ + 1,
                              !["fetchImageRef"] = @ + 1]
    /\ imageRef' = FetchImageRef(flags.image, appConfig)
    /\ pc' = IF imageRef' # 0 THEN "resolveReference" ELSE "buildImage"
    /\ UNCHANGED <<inputVars, appConfig, proxyVars, cancelVars, pollVars,
                   nixVars, img, err, opts, releaseVars, ctxDone, runResult,
                   runErr>>

\* what a resolver collaborator may return: an image, an error, or neither
ResolverOutcomes(name) ==
    {[img |-> i, err |-> NoErr] : i \in ResolverImages}
        \cup {[img |-> Nil, err |-> <<name>>], [img |-> Nil, err |-> NoErr]}

\* determineImage, lines 225-238: a pre-built image
DetermineImageResolveReference ==
    /\ pc = "resolveReference"
    /\ calls' = Call("ResolveReference")
    /\ opts' = [AppName |-> appName, Publish |-> ~flags.buildOnly,
                ImageRef |-> imageRef]
    /\ \E out \in ResolverOutcomes("ResolveReference") :
          /\ img' = out.img
          /\ err' = out.err
    /\ pc' = "run_checkImage"
    /\ UNCHANGED <<inputVars, appConfig, proxyVars, cancelVars, pollVars,
                   nixVars, imageRef, releaseVars, ctxDone, runResult,
                   runErr>>

\* determineImage, lines 268-272
ResolveTarget(cfgTarget, flagTarget) ==
    IF cfgTarget # "" THEN cfgTarget
    ELSE IF flagTarget # "" THEN flagTarget
    ELSE ""

\* determineImage, lines 275-277: neither image nor error is an error
CheckBuilt(out) ==
    IF out.err = NoErr /\ out.img = Nil
      THEN [img |-> Nil, err |-> <<"no image specified">>]
      ELSE out

\* new(app.Build), line 242
NewBuild ==
    [Image |-> 0, DockerBuildTarget |-> "", Dockerfile |-> EmptyPath,
     Args |-> NilMap]

\* (*app.Config).Dockerfile
Dockerfile(cfg) ==
    IF cfg.Build = Nil THEN EmptyPath ELSE cfg.Build.Dockerfile

\* (*app.Config).DockerBuildTarget
DockerBuildTarget(cfg) ==
    IF cfg.Build = Nil THEN "" ELSE cfg.Build.DockerBuildTarget

\* resolveDockerfilePath, lines 289-303, with its deferred filepath.Abs
ResolveDockerfilePath(cfg, flagDockerfile, getwdOk) ==
    LET path == IF Dockerfile(cfg) # EmptyPath
                  THEN Join(Dir(cfg.Path), Dockerfile(cfg))
                  ELSE flagDockerfile
    IN  IF path # EmptyPath THEN Abs(path, getwdOk)
        ELSE [path |-> path, err |-> NoErr]

RECURSIVE AssignAll(_, _, _)
\* the loop of lines 316-318 over the keys not yet visited
AssignAll(args, cli, keys) ==
    IF keys = {} THEN args
    ELSE LET k == CHOOSE x \in keys : TRUE
         IN  AssignAll(Put(args, k, cli[k]), cli, keys \ {k})

\* variant: a key already declared in the configuration is not replaced
MergeBuildArgs_KeepConfig(args, cli) ==
    LET base == IF args = NilMap THEN EmptyMap ELSE args.m
    IN  AssignAll(base, cli, DOMAIN cli \ DOMAIN base)

\* mergeBuildArgs, lines 305-321, given the parsed command-line arguments
MergeBuildArgs(args, cli) ==
    LET base == IF args = NilMap THEN EmptyMap ELSE args.m
    IN  AssignAll(base, cli, DOMAIN cli)

\* determineImage, lines 240-285: build from source
DetermineImageBuild ==
    /\ pc = "buildImage"
    /\ \E getwdOk \in BOOLEAN, out \in ResolverOutcomes("BuildImage") :
          LET build == IF appConfig.Build = Nil THEN NewBuild
                       ELSE appConfig.Build
              parsed == ParseKVStringsToMap(flags.buildArg)
              buildArgs == MergeBuildArgs(build.Args, parsed.m)
              \* the loop writes into the configuration's own map
              mutated == IF appConfig.Build # Nil /\ build.Args # NilMap
                           THEN [appConfig EXCEPT
                                    !.Build.Args = Map(buildArgs)]
                           ELSE appConfig
              resolved == ResolveDockerfilePath(appConfig,
                                                flags.dockerfile, getwdOk)
              built == CheckBuilt(out)
          IN  IF ~parsed.ok
                THEN /\ img' = Nil
                     /\ err' = Wrap("invalid build args",
                                    <<"ParseKVStringsToMap">>)
                     /\ UNCHANGED <<opts, calls, appConfig>>
              ELSE IF resolved.err # NoErr
                THEN /\ img' = Nil
                     /\ err' = resolved.err
                     /\ appConfig' = mutated
                     /\ UNCHANGED <<opts, calls>>
              ELSE /\ appConfig' = mutated
                   /\ opts' = [AppName |-> appName,
                               Publish |-> ~flags.buildOnly,
                               BuildArgs |-> buildArgs,
                               DockerfilePath |-> resolved.path,
                               Target |->
                                   ResolveTarget(DockerBuildTarget(appConfig),
                                                 flags.buildTarget)]
                   /\ calls' = Call("BuildImage")
                   /\ img' = built.img
                   /\ err' = built.err
    /\ pc' = "run_checkImage"
    /\ UNCHANGED <<inputVars, proxyVars, cancelVars, pollVars, nixVars,
                   imageRef, releaseVars, ctxDone, runResult, runErr>>

----------------------------------------------------------------------------
(* run after determineImage, and createRelease *)

\* variant: the build-only selector is not consulted
RunCheckImage_IgnoreBuildOnly ==
    /\ pc = "run_checkImage"
    /\ IF err # NoErr
         THEN RunReturn("error",
                Wrap("failed to fetch an image or build from source", err))
         ELSE /\ pc' = "createRelease"
              /\ UNCHANGED <<runResult, runErr>>
    /\ UNCHANGED <<inputVars, appConfig, proxyVars, cancelVars, pollVars,
                   nixVars, imageVars, releaseVars, ctxDone, calls>>

\* run, lines 111-117
RunCheckImage ==
    /\ pc = "run_checkImage"
    /\ IF err # NoErr
         THEN RunReturn("error",
                Wrap("failed to fetch an image or build from source", err))
         ELSE IF flags.buildOnly
         THEN RunReturn("ok", NoErr)
         ELSE /\ pc' = "createRelease"
              /\ UNCHANGED <<runResult, runErr>>
    /\ UNCHANGED <<inputVars, appConfig, proxyVars, cancelVars, pollVars,
                   nixVars, imageVars, releaseVars, ctxDone, calls>>

\* strings.ToUpper on the strategy flag, line 347
ToUpper(str) ==
    IF str = "immediate" THEN "IMMEDIATE"
    ELSE IF str = "canary" THEN "CANARY"
    ELSE str

\* variant: the release is submitted with the image id
DeployImageInput_ID(app, image, strategy) ==
    [AppID |-> app, Image |-> image.ID, Strategy |-> ToUpper(strategy)]

\* createRelease, lines 340-348
DeployImageInput(app, image, strategy) ==
    [AppID |-> app, Image |-> image.Tag, Strategy |-> ToUpper(strategy)]

\* variant: the detach selector is consulted after the release command
AfterSubmit_DetachLate(detach, rc) ==
    IF rc # Nil THEN "watchReleaseCommand"
    ELSE IF detach THEN "done"
    ELSE "dispatch"

\* run, lines 124-133: where the flow goes after a successful submission
AfterSubmit(detach, rc) ==
    IF detach THEN "done"
    ELSE IF rc # Nil THEN "watchReleaseCommand"
    ELSE "dispatch"

\* run, lines 119-126, with createRelease, lines 337-363;
\* img.Tag on a nil image is a nil pointer dereference
CreateRelease ==
    /\ pc = "createRelease"
    /\ IF img = Nil
         THEN /\ RunReturn("panic", <<"nil pointer dereference">>)
              /\ UNCHANGED <<releaseVars, calls>>
         ELSE \E strategy \in {"", "immediate"}, ok \in BOOLEAN,
                 rel \in Releases, rc \in {Nil, [ID |-> 1]} :
                /\ deployInput' = DeployImageInput(appName, img, strategy)
                /\ calls' = Call("DeployImage")
                /\ UNCHANGED <<watchedEval, refetched, dispatched, rcResult,
                               watchResult>>
                /\ IF ~ok
                     THEN /\ (rel = CHOOSE r \in Releases : TRUE) /\ rc = Nil
                          /\ UNCHANGED <<release, releaseCommand, submitted>>
                          /\ RunReturn("error", <<"DeployImage">>)
                     ELSE /\ release' = rel
                          /\ releaseCommand' = rc
                          /\ submitted' = rel
                          /\ IF AfterSubmit(flags.detach, rc) = "done"
                               THEN RunReturn("ok", NoErr)
                               ELSE /\ pc' = AfterSubmit(flags.detach, rc)
                                    /\ UNCHANGED <<runResult, runErr>>
    /\ UNCHANGED <<inputVars, appConfig, proxyVars, cancelVars, pollVars,
                   nixVars, imageVars, ctxDone>>

\* variant: a failed release command does not stop the run
WatchReleaseCommand_IgnoreFailure ==
    /\ pc = "watchReleaseCommand"
    /\ calls' = Call("watch.ReleaseCommand")
    /\ \E ok \in BOOLEAN : rcResult' = IF ok THEN "ok" ELSE "failed"
    /\ pc' = "getAppRelease"
    /\ UNCHANGED <<inputVars, appConfig, proxyVars, cancelVars, pollVars,
                   nixVars, imageVars, deployInput, release, releaseCommand,
                   submitted, watchedEval, refetched, dispatched,
                   watchResult, ctxDone, runResult, runErr>>

\* variant: a failed release-command watch is tried again
WatchReleaseCommand_Retry ==
    /\ pc = "watchReleaseCommand"
    /\ calls' = Call("watch.ReleaseCommand")
    /\ \E ok \in BOOLEAN :
          /\ rcResult' = IF ok THEN "ok" ELSE "failed"
          /\ pc' = IF ok THEN "getAppRelease" ELSE "watchReleaseCommand"
    /\ UNCHANGED <<inputVars, appConfig, proxyVars, cancelVars, pollVars,
                   nixVars, imageVars, deployInput, release, releaseCommand,
                   submitted, watchedEval, refetched, dispatched,
                   watchResult, ctxDone, runResult, runErr>>

\* run, lines 132-140
WatchReleaseCommand ==
    /\ pc = "watchReleaseCommand"
    /\ calls' = Call("watch.ReleaseCommand")
    /\ \E ok \in BOOLEAN :
          /\ rcResult' = IF ok THEN "ok" ELSE "failed"
          /\ IF ok THEN /\ pc' = "getAppRelease"
                        /\ UNCHANGED <<runResult, runErr>>
                   ELSE RunReturn("error", <<"watch.ReleaseCommand">>)
    /\ UNCHANGED <<inputVars, appConfig, proxyVars, cancelVars, pollVars,
                   nixVars, imageVars, deployInput, release, releaseCommand,
                   submitted, watchedEval, refetched, dispatched,
                   watchResult, ctxDone>>

\* variant: the re-fetched release is discarded
GetAppRelease_Discard ==
    /\ pc = "getAppRelease"
    /\ calls' = Call("GetAppRelease")
    /\ \E ok \in BOOLEAN, rel \in Releases :
          IF ok THEN /\ rel.ID = release.ID
                     /\ refetched' = rel
                     /\ pc' = "dispatch"
                     /\ UNCHANGED <<release, runResult, runErr>>
                ELSE /\ rel = release
                     /\ release' = Nil
                     /\ UNCHANGED refetched
                     /\ RunReturn("error", <<"GetAppRelease">>)
    /\ UNCHANGED <<inputVars, appConfig, proxyVars, cancelVars, pollVars,
                   nixVars, imageVars, deployInput, releaseCommand,
                   submitted, watchedEval, dispatched, rcResult,
                   watchResult, ctxDone>>

\* run, lines 142-147
GetAppRelease ==
    /\ pc = "getAppRelease"
    /\ calls' = Call("GetAppRelease")
    /\ \E ok \in BOOLEAN, rel \in Releases :
          IF ok THEN /\ rel.ID = release.ID
                     /\ release' = rel
                     /\ refetched' = rel
                     /\ pc' = "dispatch"
                     /\ UNCHANGED <<runResult, runErr>>
                ELSE /\ rel = release
                     /\ release' = Nil
                     /\ UNCHANGED refetched
                     /\ RunReturn("error", <<"GetAppRelease">>)
    /\ UNCHANGED <<inputVars, appConfig, proxyVars, cancelVars, pollVars,
                   nixVars, imageVars, deployInput, releaseCommand,
                   submitted, watchedEval, dispatched, rcResult,
                   watchResult, ctxDone>>

\* variant: the strategy is compared in the wrong case
IsImmediate_LowerCase(rel) == rel.DeploymentStrategy = "immediate"

\* run, line 149
IsImmediate(rel) == rel.DeploymentStrategy = "IMMEDIATE"

\* run, lines 149-158
Dispatch ==
    /\ pc = "dispatch"
    /\ dispatched' = TRUE
    /\ IF IsImmediate(release)
         THEN /\ RunReturn("ok", NoErr)
              /\ UNCHANGED <<watchedEval, watchResult, calls>>
         ELSE /\ calls' = Call("watch.Deployment")
              /\ watchedEval' = release.EvaluationID
              /\ \E ok \in BOOLEAN :
                    /\ watchResult' = IF ok THEN "ok" ELSE "failed"
                    /\ IF ok THEN RunReturn("ok", NoErr)
                             ELSE RunReturn("error", <<"watch.Deployment">>)
    /\ UNCHANGED <<inputVars, appConfig, proxyVars, cancelVars, pollVars,
                   nixVars, imageVars, deployInput, release, releaseCommand,
                   submitted, refetched, rcResult, ctxDone>>

----------------------------------------------------------------------------

Next ==
    \/ DetermineAppConfig
    \/ DetermineImageNix
    \/ NixRemoteBuilderMachine
    \/ NixEstablish
    \/ NixConnectToTunnel
    \/ NixStartProxy
    \/ NixPollSleep
    \/ NixPollDial
    \/ NixSyncStart
    \/ NixSync
    \/ NixRunSSHStart
    \/ NixRunSSHCommand
    \/ DetermineImageNixReturn
    \/ ProxyBind
    \/ ProxyFail
    \/ ProxyStop
    \/ CancelCtx
    \/ DetermineImageFetchRef
    \/ DetermineImageResolveReference
    \/ DetermineImageBuild
    \/ RunCheckImage
    \/ CreateRelease
    \/ WatchReleaseCommand
    \/ GetAppRelease
    \/ Dispatch

Spec == Init /\ [][Next]_vars

\* the steps a build-only run from source can take
NextBuild ==
    \/ DetermineAppConfig
    \/ DetermineImageFetchRef
    \/ DetermineImageBuild
    \/ RunCheckImage
    \/ CancelCtx

SpecBuild == InitBuild /\ [][NextBuild]_vars

\* selectors of build-only runs that use the remote builder
NixFlags ==
    [nix : {TRUE}, buildOnly : {TRUE}, detach : {FALSE}, image : 0..NumRefs,
     dockerfile : {EmptyPath}, buildTarget : {""}, buildArg : {<<>>}]

InitNix == InitWith(NixFlags, Configs)

\* the steps a build-only run on the remote builder can take
NextNix ==
    \/ DetermineAppConfig
    \/ DetermineImageNix
    \/ NixRemoteBuilderMachine
    \/ NixEstablish
    \/ NixConnectToTunnel
    \/ NixStartProxy
    \/ NixPollSleep
    \/ NixPollDial
    \/ NixSyncStart
    \/ NixSync
    \/ NixRunSSHStart
    \/ NixRunSSHCommand
    \/ DetermineImageNixReturn
    \/ ProxyBind
    \/ ProxyFail
    \/ ProxyStop
    \/ CancelCtx
    \/ RunCheckImage

\* the proxy goroutine is scheduled: once its context is done it gets to
\* observe the cancellation
SpecNixFair == InitNix /\ [][NextNix]_vars /\ WF_vars(ProxyStop)

TypeOK ==
    /\ pc \in {"determineAppConfig", "determineImage", "nix_builder",
               "nix_establish", "nix_tunnel", "nix_proxy", "nix_sleep",
               "nix_dial", "nix_sync", "nix_syncing", "nix_ssh",
               "nix_sshing", "nix_returned",
               "resolveReference", "buildImage", "run_checkImage",
               "createRelease", "watchReleaseCommand", "getAppRelease",
               "dispatch", "done"}
    /\ runResult \in {"running", "ok", "error", "panic"}
    /\ proxyState \in {"none", "spawned", "listening", "failed", "stopped"}
    /\ attempts \in 0..RetryAttempts
    /\ cancelCalls \in 0..1

----------------------------------------------------------------------------
(* Properties of NixSourceBuild *)

AfterDetermineImage ==
    /\ calls["determineImage"] = 1
    /\ pc \in {"run_checkImage", "createRelease", "watchReleaseCommand",
               "getAppRelease", "dispatch", "done"}

\* C1: in an attempt in which the cancellation handle was created, the handle
\* has not been invoked while NixSourceBuild is running and has been invoked
\* exactly once when it has returned, whichever return statement was taken.
C1_CancelExactlyOnce ==
    /\ cancelCalls <= 1
    /\ ~nixReturned => cancelCalls = 0
    /\ (nixReturned /\ deferRegistered) => cancelCalls = 1
    /\ (nixReturned /\ ~deferRegistered) => cancelCalls = 0

\* the handle was created, the sync failed, the build failed, and the
\* function returned
C1_Witness ==
    /\ nixReturned
    /\ deferRegistered
    /\ syncResult = "failed"
    /\ sshResult = "failed"
    /\ cancelCalls = 1

\* C2 as stated: once NixSourceBuild has returned the proxy task has stopped
\* and local port 8873 is released.
C2_StoppedOnReturn ==
    nixReturned => (~ProxyRunning /\ proxyState # "listening")

\* C2 amended: once NixSourceBuild has returned after creating the handle,
\* the proxy context is cancelled; the proxy task is not awaited.
C2_CancelledOnReturn ==
    (nixReturned /\ deferRegistered) => (proxyCtxDone /\ ProxyCtxDone)

\* NixSourceBuild has returned, the context is cancelled, and the proxy task
\* still holds the port
C2_Witness ==
    /\ nixReturned
    /\ proxyCtxDone
    /\ proxyState = "listening"

PollStates == {"nix_sleep", "nix_dial"}

\* C3: the readiness poll makes at most 10 connect attempts, one wait before
\* each; it stops at the first attempt that succeeds; the exhaustion error
\* is returned only after 10 failed attempts.
C3_BoundedPoll ==
    /\ attempts <= 10
    /\ sleeps = attempts + (IF pc = "nix_dial" THEN 1 ELSE 0)
    /\ dialOk <= 1
    /\ pc \in PollStates => dialOk = 0
    /\ (nixErr # NoErr /\ Head(nixErr) = Head(TunnelNotReady(NoErr)))
          => (attempts = 10 /\ dialOk = 0)

\* the third attempt succeeded and the poll went on to the sync
C3_Witness ==
    /\ pc = "nix_sync"
    /\ attempts = 3
    /\ sleeps = 3
    /\ dialOk = 1

\* C4: when all 10 attempts have failed NixSourceBuild has returned no image
\* and the tunnel-not-ready error wrapping the dial error; neither rsync nor
\* the remote command was run and the proxy context is cancelled.
C4_ExhaustionAborts ==
    (attempts = 10 /\ dialOk = 0) =>
        /\ nixReturned
        /\ nixImg = Nil
        /\ Head(nixErr) = "rsync proxy failed to connect after 10 seconds"
        /\ nixErr[Len(nixErr)] = lastDialErr[1]
        /\ calls["rsync"] = 0
        /\ calls["RunSSHCommand"] = 0
        /\ syncResult = "none"
        /\ sshResult = "none"
        /\ cancelCalls = 1
        /\ proxyCtxDone
        /\ AfterDetermineImage => (img = Nil /\ err = nixErr)

\* ten attempts failed and determineImage handed the error to run
C4_Witness ==
    /\ attempts = 10
    /\ dialOk = 0
    /\ pc = "run_checkImage"
    /\ err # NoErr

\* C5: after a successful poll the remote command is run exactly once,
\* whether rsync succeeded or failed, and what NixSourceBuild returns is a
\* function of the remote command's result alone.
C5_SyncFailureIgnored ==
    /\ calls["rsync"] <= 1
    /\ calls["RunSSHCommand"] <= 1
    /\ (nixReturned /\ dialOk = 1) =>
          /\ syncResult \in {"ok", "failed"}
          /\ calls["rsync"] = 1
          /\ calls["RunSSHCommand"] = 1
          /\ sshResult \in {"ok", "failed"}
          /\ nixErr = IF sshResult = "ok" THEN NoErr ELSE <<"RunSSHCommand">>
          /\ (nixImg # Nil) = (sshResult = "ok")

\* the sync failed, the build ran and succeeded, and an image was returned
C5_Witness ==
    /\ nixReturned
    /\ syncResult = "failed"
    /\ sshResult = "ok"
    /\ nixImg # Nil
    /\ nixErr = NoErr

\* C6: NixSourceBuild returns an image exactly when the remote command
\* succeeded: a failure gives the command's error and no image, a success
\* gives no error and an image whose tag and id are the deployment tag of
\* the application name and the empty qualifier.
C6_ImageIffBuilt ==
    nixReturned =>
        /\ (nixImg # Nil) = (sshResult = "ok")
        /\ sshResult = "failed" => (nixImg = Nil /\ nixErr = <<"RunSSHCommand">>)
        /\ sshResult = "ok" =>
              /\ nixErr = NoErr
              /\ nixImg.Tag = NewDeploymentTag(appName, "")
              /\ nixImg.ID = NewDeploymentTag(appName, "")

\* the remote command succeeded and NixSourceBuild returned its image
C6_Witness ==
    /\ nixReturned
    /\ sshResult = "ok"
    /\ nixImg = NewImage(NewDeploymentTag(appName, ""))

----------------------------------------------------------------------------
(* Properties of determineImage and run *)

\* C7: with the nix selector set, fetchImageRef, ResolveReference and
\* BuildImage are never invoked, and determineImage returns what
\* NixSourceBuild returned.
C7_NixBypassesResolver ==
    flags.nix =>
        /\ calls["fetchImageRef"] = 0
        /\ calls["ResolveReference"] = 0
        /\ calls["BuildImage"] = 0
        /\ calls["NixSourceBuild"] <= 1
        /\ AfterDetermineImage =>
              (nixReturned /\ img = nixImg /\ err = nixErr)

\* a nix run with an image flag and a configured build image returned the
\* remote build's image
C7_Witness ==
    /\ flags.nix
    /\ flags.image # 0
    /\ localCfg # Nil
    /\ localCfg.Build # Nil
    /\ localCfg.Build.Image # 0
    /\ pc = "run_checkImage"
    /\ img # Nil

\* C8: when determineImage has returned without an error it has returned an
\* image, on every acquisition path.
C8_ImageOnSuccess ==
    (AfterDetermineImage /\ err = NoErr) => img # Nil

\* C9: determineImage and DeployImage are each invoked at most once; when
\* DeployImage has been invoked, determineImage had returned an image and no
\* error, and the submitted input carries that image's tag.
C9_OneImageOneRelease ==
    /\ calls["determineImage"] <= 1
    /\ calls["DeployImage"] <= 1
    /\ calls["NixSourceBuild"] + calls["ResolveReference"]
          + calls["BuildImage"] <= 1
    /\ calls["DeployImage"] = 1 =>
          /\ AfterDetermineImage
          /\ err = NoErr
          /\ img # Nil
          /\ deployInput.Image = img.Tag
    /\ (AfterDetermineImage /\ err # NoErr) =>
          (calls["DeployImage"] = 0 /\ deployInput = Nil /\ release = Nil)

\* a resolved reference was submitted as a release
C9_Witness ==
    /\ calls["DeployImage"] = 1
    /\ calls["ResolveReference"] = 1
    /\ submitted # Nil
    /\ deployInput.Image = img.Tag

\* C10: with the build-only selector set, DeployImage, the release-command
\* watch, the release re-fetch and the deployment watch are never invoked,
\* and a run whose image acquisition succeeded ends without error.
C10_BuildOnlyStops ==
    flags.buildOnly =>
        /\ calls["DeployImage"] = 0
        /\ calls["watch.ReleaseCommand"] = 0
        /\ calls["GetAppRelease"] = 0
        /\ calls["watch.Deployment"] = 0
        /\ pc \notin {"createRelease", "watchReleaseCommand", "getAppRelease",
                      "dispatch"}
        /\ (pc = "done" /\ calls["determineImage"] = 1 /\ err = NoErr) =>
              (runResult = "ok" /\ runErr = NoErr)

\* a build-only run acquired an image and ended successfully
C10_Witness ==
    /\ flags.buildOnly
    /\ pc = "done"
    /\ img # Nil
    /\ runResult = "ok"

----------------------------------------------------------------------------
(* Properties of the release lifecycle in run *)

\* C11: with the detach selector set, the release-command watch, the release
\* re-fetch and the deployment watch are never invoked, and once DeployImage
\* has succeeded the run has ended without error.
C11_DetachStops ==
    flags.detach =>
        /\ calls["watch.ReleaseCommand"] = 0
        /\ calls["GetAppRelease"] = 0
        /\ calls["watch.Deployment"] = 0
        /\ ~dispatched
        /\ submitted # Nil =>
              (pc = "done" /\ runResult = "ok" /\ runErr = NoErr)

\* a detached run ended successfully although a release command was
\* produced and the strategy is not IMMEDIATE
C11_Witness ==
    /\ flags.detach
    /\ pc = "done"
    /\ runResult = "ok"
    /\ submitted # Nil
    /\ submitted.DeploymentStrategy = "CANARY"
    /\ releaseCommand # Nil

\* C12: when a release command was produced and detach is not set, the
\* strategy check and the deployment watch happen only after the
\* release-command watch succeeded; a failed release-command watch ends the
\* run with that error, without re-fetch and without deployment watch.
C12_ReleaseCommandGates ==
    /\ (releaseCommand # Nil /\ ~flags.detach /\ pc # "watchReleaseCommand")
          => calls["watch.ReleaseCommand"] = 1
    /\ (releaseCommand # Nil /\ (pc = "dispatch" \/ dispatched
                                  \/ calls["watch.Deployment"] > 0))
          => (rcResult = "ok" /\ calls["GetAppRelease"] = 1)
    /\ calls["GetAppRelease"] > 0 => rcResult = "ok"
    /\ rcResult = "failed" =>
          /\ pc = "done"
          /\ runResult = "error"
          /\ runErr = <<"watch.ReleaseCommand">>
          /\ calls["GetAppRelease"] = 0
          /\ calls["watch.Deployment"] = 0
          /\ ~dispatched

\* the release-command watch failed and the run ended with its error
C12_Witness ==
    /\ releaseCommand # Nil
    /\ rcResult = "failed"
    /\ pc = "done"
    /\ runErr = <<"watch.ReleaseCommand">>

\* C13: at the strategy check, a release with strategy IMMEDIATE ends the run
\* successfully without the deployment watch; any other strategy invokes the
\* deployment watch once with the release's evaluation id and the run
\* returns the watch's outcome.
C13_Dispatch ==
    /\ calls["watch.Deployment"] <= 1
    /\ ~dispatched => (calls["watch.Deployment"] = 0 /\ watchResult = "none")
    /\ dispatched =>
          /\ pc = "done"
          /\ IF release.DeploymentStrategy = "IMMEDIATE"
               THEN /\ calls["watch.Deployment"] = 0
                    /\ watchResult = "none"
                    /\ runResult = "ok"
                    /\ runErr = NoErr
               ELSE /\ calls["watch.Deployment"] = 1
                    /\ watchedEval = release.EvaluationID
                    /\ watchResult \in {"ok", "failed"}
                    /\ watchResult = "ok" =>
                          (runResult = "ok" /\ runErr = NoErr)
                    /\ watchResult = "failed" =>
                          (runResult = "error"
                              /\ runErr = <<"watch.Deployment">>)

\* a release with another strategy was watched under evaluation id 2 and
\* the watch's failure was returned
C13_Witness ==
    /\ dispatched
    /\ release.DeploymentStrategy = "CANARY"
    /\ release.EvaluationID = 2
    /\ watchedEval = 2
    /\ watchResult = "failed"
    /\ runResult = "error"

Last(e) == e[Len(e)]

\* position of each collaborator in the flow of run
Rank ==
    [c \in Collaborators |->
        CASE c = "GetConfig" -> 1
          [] c = "determineImage" -> 2
          [] c \in {"NixSourceBuild", "fetchImageRef"} -> 3
          [] c \in {"RemoteBuilderMachine", "ResolveReference",
                    "BuildImage"} -> 4
          [] c = "Establish" -> 5
          [] c = "ConnectToTunnel" -> 6
          [] c = "proxy.Connect" -> 7
          [] c = "rsync" -> 9
          [] c = "RunSSHCommand" -> 10
          [] c = "DeployImage" -> 11
          [] c = "watch.ReleaseCommand" -> 12
          [] c = "GetAppRelease" -> 13
          [] c = "watch.Deployment" -> 14]

\* collaborator c returned an error
StageFailed(c) ==
    \/ c = "rsync" /\ syncResult = "failed"
    \/ c = "RunSSHCommand" /\ sshResult = "failed"
    \/ c = "watch.ReleaseCommand" /\ rcResult = "failed"
    \/ c = "watch.Deployment" /\ watchResult = "failed"
    \/ nixErr # NoErr /\ Last(nixErr) = c
    \/ err # NoErr /\ Last(err) = c
    \/ runErr # NoErr /\ Last(runErr) = c

\* nothing after collaborator c has been invoked and the run is over or is
\* handing the error back
StoppedAt(c) ==
    /\ \A d \in Collaborators : Rank[d] > Rank[c] => calls[d] = 0
    /\ pc \in {"nix_returned", "run_checkImage", "done"}
    /\ pc = "done" => runResult = "error"

\* the readiness poll gave up
PollExhausted == attempts = 10 /\ dialOk = 0

OncePerRun == \A c \in Collaborators : calls[c] <= 1

\* C14 as stated: no collaborator is invoked twice, and after any
\* collaborator, the sync included, returned an error nothing later runs.
C14_EveryFailureStops ==
    /\ OncePerRun
    /\ \A c \in Collaborators : StageFailed(c) => StoppedAt(c)
    /\ PollExhausted => StoppedAt("proxy.Connect")

\* C14 amended: no collaborator is invoked twice, and after any collaborator
\* other than the sync process returned an error nothing later runs.
C14_FailureStopsExceptSync ==
    /\ OncePerRun
    /\ \A c \in Collaborators \ {"rsync"} : StageFailed(c) => StoppedAt(c)
    /\ PollExhausted => StoppedAt("proxy.Connect")

\* the poll was repeated, the tunnel came up, and the release submission
\* failed and ended the run
C14_Witness ==
    /\ attempts > 1
    /\ StageFailed("DeployImage")
    /\ pc = "done"
    /\ runResult = "error"
    /\ calls["watch.ReleaseCommand"] = 0

\* C20: after a successful release-command watch the strategy check and the
\* deployment watch use the re-fetched release; without a release command
\* the release is not re-fetched and the submitted release is used; a failed
\* re-fetch ends the run before the strategy check.
C20_DispatchOnLatestRelease ==
    /\ (dispatched /\ rcResult = "ok") =>
          /\ refetched # Nil
          /\ (calls["watch.Deployment"] = 1)
                = (refetched.DeploymentStrategy # "IMMEDIATE")
          /\ calls["watch.Deployment"] = 1 =>
                watchedEval = refetched.EvaluationID
    /\ (dispatched /\ releaseCommand = Nil) =>
          /\ calls["GetAppRelease"] = 0
          /\ refetched = Nil
          /\ (calls["watch.Deployment"] = 1)
                = (submitted.DeploymentStrategy # "IMMEDIATE")
          /\ calls["watch.Deployment"] = 1 =>
                watchedEval = submitted.EvaluationID
    /\ StageFailed("GetAppRelease") =>
          /\ ~dispatched
          /\ calls["watch.Deployment"] = 0
          /\ pc = "done"
          /\ runResult = "error"

\* the re-fetched release differs from the submitted one in strategy and
\* evaluation id, and the deployment watch got the re-fetched id
C20_Witness ==
    /\ dispatched
    /\ refetched # Nil
    /\ submitted.DeploymentStrategy = "IMMEDIATE"
    /\ refetched.DeploymentStrategy = "CANARY"
    /\ refetched.EvaluationID # submitted.EvaluationID
    /\ watchedEval = refetched.EvaluationID

----------------------------------------------------------------------------
(* Properties of the Docker build inputs *)

\* determineImage handed options to BuildImage
BuildRequested == calls["BuildImage"] = 1 /\ opts # Nil

\* C15 as stated: a Dockerfile flag, when given, is the resolved path; a
\* configuration-declared path alone is resolved against the configuration
\* file's directory; a non-empty result is absolute.
C15_FlagOverridesDockerfile ==
    BuildRequested =>
        /\ flags.dockerfile # EmptyPath =>
              opts.DockerfilePath = Abs(flags.dockerfile, TRUE).path
        /\ (flags.dockerfile = EmptyPath
               /\ Dockerfile(appConfig) # EmptyPath) =>
              opts.DockerfilePath =
                  Abs(Join(Dir(appConfig.Path), Dockerfile(appConfig)),
                      TRUE).path
        /\ opts.DockerfilePath # EmptyPath => opts.DockerfilePath.abs

\* C16 as stated: a build-target flag, when given, is the target handed to
\* BuildImage; otherwise the configuration-declared target is.
C16_FlagOverridesTarget ==
    BuildRequested =>
        opts.Target = IF flags.buildTarget # "" THEN flags.buildTarget
                      ELSE DockerBuildTarget(appConfig)

\* the build arguments declared by the configuration the run started with
DeclaredArgs ==
    IF localCfg = Nil \/ localCfg.Build = Nil
          \/ localCfg.Build.Args = NilMap
      THEN EmptyMap
      ELSE localCfg.Build.Args.m

\* C17: the build arguments handed to BuildImage have the union of the
\* configuration's and the command line's keys; a key given on the command
\* line has the command line's value, any other key the configuration's; a
\* nil configuration map counts as empty.
C17_MergeBuildArgs ==
    BuildRequested =>
        LET cli == ParseKVStringsToMap(flags.buildArg).m
        IN  /\ DOMAIN opts.BuildArgs = DOMAIN DeclaredArgs \cup DOMAIN cli
            /\ \A k \in DOMAIN cli : opts.BuildArgs[k] = cli[k]
            /\ \A k \in DOMAIN DeclaredArgs \ DOMAIN cli :
                  opts.BuildArgs[k] = DeclaredArgs[k]

\* configuration {A: 1, B: 2} and command line B=3 C=4 gave {A: 1, B: 3, C: 4}
C17_Witness ==
    /\ BuildRequested
    /\ DeclaredArgs = (<<"A">> :> <<"1">>) @@ (<<"B">> :> <<"2">>)
    /\ flags.buildArg = << <<"B", "=", "3">>, <<"C", "=", "4">> >>
    /\ opts.BuildArgs = (<<"A">> :> <<"1">>) @@ (<<"B">> :> <<"3">>)
                           @@ (<<"C">> :> <<"4">>)

----------------------------------------------------------------------------
(* Properties of the proxy task *)

PastReadiness ==
    pc \in {"nix_sync", "nix_syncing", "nix_ssh", "nix_sshing"}
        \/ syncResult # "none"

Mentions(e, name) == \E i \in 1..Len(e) : e[i] = name

\* C19: no error handed back by NixSourceBuild, determineImage or run is the
\* proxy task's; the flow is past the readiness poll exactly when a connect
\* attempt succeeded, and gives up exactly when 10 attempts failed,
\* whatever state the proxy task is in.
C19_ProxyResultUnobserved ==
    /\ \A e \in {nixErr, err, runErr} : ~Mentions(e, "proxy.Connect")
    /\ PastReadiness = (dialOk = 1)
    /\ (nixErr # NoErr /\ Head(nixErr) = Head(TunnelNotReady(NoErr)))
          = PollExhausted

\* the proxy task failed to bind the port, and the flow still went past the
\* readiness poll to the remote build
C19_Witness ==
    /\ portBusy
    /\ proxyState = "failed"
    /\ dialOk = 1
    /\ sshResult = "ok"
    /\ nixImg # Nil

====
